---- MODULE Spec2Model ----
(***************************************************************************)
(* A model of the SSH binary-packet stream (src/ssh/stream.c) and of the   *)
(* Diffie-Hellman key exchange driver (src/ssh/kex_dh.c).                  *)
(*                                                                         *)
(* Two streams are modelled, as a connection holds them: "tx" is the       *)
(* outbound stream of the sending peer, "rx" the inbound stream of the     *)
(* receiving peer.  `wire' is the socket between them.  32-bit unsigned    *)
(* values that may exceed 2^31 are kept as pairs <<hi16, lo16>>.           *)
(***************************************************************************)
EXTENDS Integers, Sequences, FiniteSets, TLC

VARIABLES stream, wire, phase, crashed, ev, rt, hist, lim, pad, kex

vars == <<stream, wire, phase, crashed, ev, rt, hist, lim, pad, kex>>

(***************************************************************************)
(* Bounds of the model.                                                    *)
(***************************************************************************)
\* longest payload of the single round trips (SpecRT)
MaxPayloadLen == 16
\* number of packets the sender builds in one run of Spec
MaxSends == 2
\* number of key installs (set_cipher / set_mac calls) in one run of SpecKeys
MaxInstalls == 1
\* number of in-transit alterations by the network in one run of SpecNet
MaxTamper == 1
\* number of packets of the network's own making in one run of SpecInject
MaxInject == 1
\* number of read-aheads in one run of SpecRT and SpecKeys
MaxReadAhead == 1
\* number of packets the sender builds in one run of SpecKeys
MaxKeySends == 1
\* longest payload handed to calc_pad_len in SpecPad
MaxPadPayload == 260

(***************************************************************************)
(* Byte and u32 helpers (ssh_buf_get_u32 / ssh_buf_set_u32 are big-endian).*)
(***************************************************************************)
Byte == 0..255

Min(a, b) == IF a < b THEN a ELSE b

\* a u32 is <<hi, lo>> with hi, lo in 0..65535
U32Zero == <<0, 0>>

U32OfInt(n) == <<n \div 65536, n % 65536>>

\* an increment that carries out of the 32 bits instead of wrapping
U32IncNoWrap(v) == IF v[2] = 65535 THEN <<v[1] + 1, 0>> ELSE <<v[1], v[2] + 1>>

\* stream->seq_num++ on a uint32_t
U32Inc(v) ==
    IF v[2] = 65535
    THEN <<(v[1] + 1) % 65536, 0>>
    ELSE <<v[1], v[2] + 1>>

\* the four big-endian octets of a u32
U32Bytes(v) == <<v[1] \div 256, v[1] % 256, v[2] \div 256, v[2] % 256>>

\* ssh_buf_get_u32(data): the u32 held in the first four octets
ssh_buf_get_u32(data) == <<data[1] * 256 + data[2], data[3] * 256 + data[4]>>

\* ssh_buf_set_u32(data, n): data with its first four octets set to n
ssh_buf_set_u32(data, n) ==
    U32Bytes(U32OfInt(n)) \o SubSeq(data, 5, Len(data))

Fill(n, b) == [i \in 1..n |-> b]

\* the one element of a singleton set: The({e(x) : x \in {v}}) is e(v), with
\* v worked out once
The(S) == CHOOSE x \in S : TRUE

\* the sum of the octets of s, modulo 256
SumSeq(s) ==
    LET S[i \in 0..Len(s)] == IF i = 0 THEN 0 ELSE (S[i - 1] + s[i]) % 256
    IN  S[Len(s)]

\* the sum of the octets of s, each weighted by its position, modulo 256
WSumSeq(s) ==
    LET S[i \in 0..Len(s)] == IF i = 0 THEN 0 ELSE (S[i - 1] + i * s[i]) % 256
    IN  S[Len(s)]

(***************************************************************************)
(* SSH_BUFFER: data (the backing store) and len (the nominal length).     *)
(* The MAC of a packet is kept in data past len.                           *)
(***************************************************************************)
ssh_buf_new == [data |-> <<>>, len |-> 0]

ssh_buf_clear(buf) == [data |-> <<>>, len |-> 0]

\* ssh_buf_get_write_pointer(buf, n) followed by the caller's write of bytes
BufAppend(buf, bytes) ==
    [data |-> SubSeq(buf.data, 1, buf.len) \o bytes, len |-> buf.len + Len(bytes)]

\* the nominal content of a buffer
BufData(buf) == SubSeq(buf.data, 1, buf.len)

(***************************************************************************)
(* Collaborators of the stream: the cipher, MAC and random generator live  *)
(* outside stream.c; they are modelled by their contracts.                 *)
(***************************************************************************)
\* key material handed to an install (iv and key of SSH_STRING type)
KeyMaterial == {[iv |-> 0, key |-> 1], [iv |-> 3, key |-> 2]}

\* the cipher types an install may name ("unknown" is no cipher of the table)
CipherTypes == {"3des-cbc", "aes128-cbc", "unknown"}

\* the MAC types an install may name ("unknown" is no MAC of the table)
MacTypes == {"hmac-sha1", "hmac-sha2-256", "unknown"}

\* ssh_cipher_get_block_len(type): the block length, or -1
ssh_cipher_get_block_len(type) ==
    CASE type = "none" -> 0
      [] type = "3des-cbc" -> 8
      [] type = "aes128-cbc" -> 16
      [] OTHER -> -1

\* ssh_mac_get_len(type): the digest length, or -1
ssh_mac_get_len(type) ==
    CASE type = "none" -> 0
      [] type = "hmac-sha1" -> 20
      [] type = "hmac-sha2-256" -> 32
      [] OTHER -> -1

\* a NULL cipher context
NullCipher == [live |-> FALSE, type |-> "none", dir |-> "none", key |-> 0, ctr |-> 0]

\* a NULL MAC context
NullMac == [live |-> FALSE, type |-> "none", key |-> 0]

\* ssh_cipher_new(type, dir, iv, key): a context holding the key and the chain state
ssh_cipher_new(type, dir, km) ==
    [live |-> TRUE, type |-> type, dir |-> dir, key |-> km.key, ctr |-> km.iv]

\* ssh_mac_new(type, key)
ssh_mac_new(type, km) == [live |-> TRUE, type |-> type, key |-> km.key]

\* the key stream octet of block blk, offset off
KeyStream(ctx, blk, off) == (ctx.key * 37 + blk * 11 + off * 3 + 1) % 256

\* the cipher's transformation of a run of octets starting at the chain state
CryptBytes(ctx, in) ==
    LET bl == ssh_cipher_get_block_len(ctx.type)
    IN  [i \in 1..Len(in) |->
            LET ks == KeyStream(ctx, ctx.ctr + ((i - 1) \div bl), (i - 1) % bl)
            IN  IF ctx.dir = "encrypt"
                THEN (in[i] + ks) % 256
                ELSE (in[i] + 256 - ks) % 256]

\* ssh_cipher_crypt(ctx, out, in, len): whole blocks only; advances the chain state
ssh_cipher_crypt(ctx, in) ==
    LET bl == ssh_cipher_get_block_len(ctx.type)
    IN  IF ~ctx.live \/ bl <= 0 \/ Len(in) % bl # 0
        THEN [ok |-> FALSE, out |-> <<>>, ctx |-> ctx]
        ELSE [ok |-> TRUE, out |-> CryptBytes(ctx, in),
              ctx |-> [ctx EXCEPT !.ctr = @ + (Len(in) \div bl)]]

\* ssh_mac_compute(ctx, digest, seq_num, data, len): a keyed digest of
\* seq_num (four big-endian octets) followed by data
ssh_mac_compute(ctx, seq_num, data) ==
    The({[i \in 1..ssh_mac_get_len(ctx.type) |->
             (ctx.key * 31 + ssh_mac_get_len(ctx.type) + i + i * s0 + s1) % 256] :
         s0 \in {SumSeq(U32Bytes(seq_num) \o data)},
         s1 \in {WSumSeq(U32Bytes(seq_num) \o data)}})

\* seeds of the random generator
RandSeeds == {0, 201}

\* crypto_random_gen(p, n): n octets drawn by the generator
crypto_random_gen(rnd, n) == [i \in 1..n |-> (rnd + i * 7) % 256]

(***************************************************************************)
(* The stream (struct SSH_STREAM) and its operations.                      *)
(***************************************************************************)
\* ssh_stream_init
ssh_stream_init ==
    [seq_num |-> U32Zero,
     pack |-> ssh_buf_new, pack_enc |-> ssh_buf_new, net_buffer |-> <<>>,
     cipher_type |-> "none", cipher_block_len |-> 0, cipher_ctx |-> NullCipher,
     mac_type |-> "none", mac_len |-> 0, mac_ctx |-> NullMac]

\* an install of a cipher that starts the sequence counter afresh
set_cipher_resets_seq(st, type, dir, km, new_ok) ==
    LET cipher_block_len == ssh_cipher_get_block_len(type)
    IN  IF cipher_block_len < 0 THEN [ret |-> -1, st |-> st]
        ELSE IF ~new_ok THEN [ret |-> -1, st |-> [st EXCEPT !.cipher_ctx = NullCipher]]
        ELSE [ret |-> 0,
              st |-> [st EXCEPT !.cipher_ctx = ssh_cipher_new(type, dir, km),
                                !.cipher_type = type,
                                !.cipher_block_len = cipher_block_len,
                                !.seq_num = U32Zero]]

\* ssh_stream_set_cipher(stream, type, dir, iv, key); new_ok: ssh_cipher_new succeeds
ssh_stream_set_cipher(st, type, dir, km, new_ok) ==
    LET cipher_block_len == ssh_cipher_get_block_len(type)
    IN  IF cipher_block_len < 0 THEN [ret |-> -1, st |-> st]
        ELSE IF ~new_ok THEN [ret |-> -1, st |-> [st EXCEPT !.cipher_ctx = NullCipher]]
        ELSE [ret |-> 0,
              st |-> [st EXCEPT !.cipher_ctx = ssh_cipher_new(type, dir, km),
                                !.cipher_type = type,
                                !.cipher_block_len = cipher_block_len]]

\* ssh_stream_set_mac(stream, type, key); new_ok: ssh_mac_new succeeds
ssh_stream_set_mac(st, type, km, new_ok) ==
    LET mac_len == ssh_mac_get_len(type)
    IN  IF mac_len < 0 THEN [ret |-> -1, st |-> st]
        ELSE IF ~new_ok THEN [ret |-> -1, st |-> [st EXCEPT !.mac_ctx = NullMac]]
        ELSE [ret |-> 0,
              st |-> [st EXCEPT !.mac_ctx = ssh_mac_new(type, km),
                                !.mac_type = type,
                                !.mac_len = mac_len]]

\* ssh_stream_new_packet: clear pack, reserve pack_len (u32) and pad_len (u8)
ssh_stream_new_packet(st) ==
    [st EXCEPT !.pack = BufAppend(ssh_buf_clear(st.pack), <<0, 0, 0, 0, 0>>)]

\* calc_pad_len with a block size smaller than 8 raised to 4 only
calc_pad_len_min4(pack_len_before_padding, block_size) ==
    LET bs == IF block_size < 8 THEN 4 ELSE block_size
        p0 == (bs - (pack_len_before_padding % bs)) % 256
    IN  IF p0 < 4 THEN (p0 + bs) % 256 ELSE p0

\* calc_pad_len adding a block to a padding of 4 as well
calc_pad_len_le4(pack_len_before_padding, block_size) ==
    LET bs == IF block_size < 8 THEN 8 ELSE block_size
        p0 == (bs - (pack_len_before_padding % bs)) % 256
    IN  IF p0 <= 4 THEN (p0 + bs) % 256 ELSE p0

\* calc_pad_len padding to a multiple of 8 whatever the block size
calc_pad_len_block8(pack_len_before_padding, block_size) ==
    LET bs == 8
        p0 == (bs - (pack_len_before_padding % bs)) % 256
    IN  IF p0 < 4 THEN (p0 + bs) % 256 ELSE p0

\* calc_pad_len(pack_len_before_padding, block_size): block_size and the
\* result are uint8_t
calc_pad_len(pack_len_before_padding, block_size) ==
    LET bs == IF block_size < 8 THEN 8 ELSE block_size
        p0 == (bs - (pack_len_before_padding % bs)) % 256
    IN  IF p0 < 4 THEN (p0 + bs) % 256 ELSE p0

\* a cipher that is none leaves the octets as they are
NoCrypt(ctx, in) == [ok |-> TRUE, out |-> in, ctx |-> ctx]

\* finish_packet with the padding of a packet in the clear left zero
frame_packet_zero_pad(st, rnd) ==
    LET pad_len == calc_pad_len(st.pack.len, st.cipher_block_len % 256)
        padding == IF st.cipher_type = "none"
                   THEN Fill(pad_len, 0)
                   ELSE crypto_random_gen(rnd, pad_len)
        data == BufData(st.pack) \o padding
    IN  [ssh_buf_set_u32(data, Len(data) - 4) EXCEPT ![5] = pad_len]

\* finish_packet, the padding and framing: the packet with its padding, its
\* packet length and its padding length written
frame_packet(st, rnd) ==
    LET pad_len == calc_pad_len(st.pack.len, st.cipher_block_len % 256)
        padding == IF st.cipher_type = "none"
                   THEN Fill(pad_len, 255)
                   ELSE crypto_random_gen(rnd, pad_len)
        data == BufData(st.pack) \o padding
    IN  [ssh_buf_set_u32(data, Len(data) - 4) EXCEPT ![5] = pad_len]

\* finish_packet, the MAC: c is the outcome of the encryption of framed.
\* A NULL cipher or MAC context behind a non-none type is reported in `null'.
finish_mac(st, framed, c) ==
    LET st1 == [st EXCEPT !.pack = [data |-> framed, len |-> Len(framed)]]
        st2 == IF st.cipher_type = "none" THEN st1
               ELSE [st1 EXCEPT !.pack_enc = [data |-> c.out, len |-> Len(framed)],
                                !.cipher_ctx = c.ctx]
    IN  IF st.cipher_type # "none" /\ ~c.ok
        THEN [ret |-> -1, st |-> st2, null |-> ~st.cipher_ctx.live]
        ELSE IF st.mac_type = "none"
        THEN [ret |-> 0, st |-> st2, null |-> FALSE]
        ELSE IF ~st.mac_ctx.live
        THEN [ret |-> -1, st |-> st2, null |-> TRUE]
        ELSE IF st.cipher_type = "none"
        THEN [ret |-> 0, null |-> FALSE,
              st |-> [st2 EXCEPT !.pack.data =
                         framed \o ssh_mac_compute(st.mac_ctx, st.seq_num, framed)]]
        ELSE [ret |-> 0, null |-> FALSE,
              st |-> [st2 EXCEPT !.pack_enc.data =
                         c.out \o ssh_mac_compute(st.mac_ctx, st.seq_num, framed)]]

\* finish_packet, the encryption of the framed packet
finish_framed(st, framed) ==
    The({finish_mac(st, framed, c) :
         c \in {IF st.cipher_type = "none"
                THEN NoCrypt(st.cipher_ctx, framed)
                ELSE ssh_cipher_crypt(st.cipher_ctx, framed)}})

\* finish_packet: pad, frame, encrypt and MAC the packet held in pack.
\* alloc_ok: ssh_buf_get_write_pointer / ssh_buf_grow succeed.
finish_packet(st, rnd, alloc_ok) ==
    IF ~alloc_ok THEN [ret |-> -1, st |-> st, null |-> FALSE]
    ELSE The({finish_framed(st, framed) : framed \in {frame_packet(st, rnd)}})

\* outcomes of ssh_net_write_all: all written, or a failure before any octet
\* reached the peer
WriteOutcomes == {"ok", "fail"}

\* ssh_stream_send_packet after finish_packet (f is its outcome): the
\* sequence number, then the write.  out is what reached the socket.
send_finished(st, f, wr) ==
    LET st1 == [f.st EXCEPT !.seq_num = U32Inc(@)]
        write_pack == IF st.cipher_type = "none" THEN f.st.pack ELSE f.st.pack_enc
        bytes == SubSeq(write_pack.data, 1, write_pack.len + st.mac_len)
    IN  IF f.ret < 0
        THEN [ret |-> -1, err |-> "finish", st |-> f.st, out |-> <<>>,
              bytes |-> <<>>, null |-> f.null]
        ELSE IF wr # "ok"
        THEN [ret |-> -1, err |-> "write", st |-> st1, out |-> <<>>,
              bytes |-> bytes, null |-> FALSE]
        ELSE [ret |-> 0, err |-> "", st |-> st1, out |-> bytes,
              bytes |-> bytes, null |-> FALSE]

\* ssh_stream_send_packet(stream, sock)
ssh_stream_send_packet(st, rnd, alloc_ok, wr) ==
    The({send_finished(st, f, wr) : f \in {finish_packet(st, rnd, alloc_ok)}})

(***************************************************************************)
(* The receive path.                                                       *)
(***************************************************************************)
\* a u32 as an integer; a value of 2^31 or more exceeds every length a
\* buffer or the socket of the model holds and is clamped
U32ToInt(v) == IF v[1] >= 32768 THEN 2147483647 ELSE v[1] * 65536 + v[2]

\* the u32 holding the integer n, -2^16 < n < 2^31 (n < 0 wraps modulo 2^32)
U32Wrap(n) == IF n >= 0 THEN U32OfInt(n) ELSE <<65535, 65536 + n>>

\* ssh_net_read_all(sock, data, n): n octets of the socket, or a failure
\* (an I/O error, or the peer closing before n octets came)
ssh_net_read_all(sock, n, io_ok) ==
    IF ~io_ok THEN [ok |-> FALSE, data |-> <<>>, sock |-> sock]
    ELSE IF Len(sock) < n THEN [ok |-> FALSE, data |-> sock, sock |-> <<>>]
    ELSE [ok |-> TRUE, data |-> SubSeq(sock, 1, n), sock |-> SubSeq(sock, n + 1, Len(sock))]

\* stream_recv_data leaving in net_buffer the octets it took from it
stream_recv_data_keeps_buffer(net_buffer, sock, data_len, io_ok) ==
    LET want == U32ToInt(data_len)
        len_from_buffer == IF Len(net_buffer) > 0 THEN Min(Len(net_buffer), want) ELSE 0
        from_buffer == SubSeq(net_buffer, 1, len_from_buffer)
    IN  IF want - len_from_buffer > 0
        THEN The({[ok |-> rd.ok, data |-> from_buffer \o rd.data, net_buffer |-> net_buffer,
                   sock |-> rd.sock] :
                  rd \in {ssh_net_read_all(sock, want - len_from_buffer, io_ok)}})
        ELSE [ok |-> TRUE, data |-> from_buffer, net_buffer |-> net_buffer, sock |-> sock]

\* stream_recv_data(stream, sock, data, data_len): from net_buffer first,
\* then from the socket.  data_len is a u32.
stream_recv_data(net_buffer, sock, data_len, io_ok) ==
    LET want == U32ToInt(data_len)
        len_from_buffer == IF Len(net_buffer) > 0 THEN Min(Len(net_buffer), want) ELSE 0
        from_buffer == SubSeq(net_buffer, 1, len_from_buffer)
        nb == SubSeq(net_buffer, len_from_buffer + 1, Len(net_buffer))
    IN  IF want - len_from_buffer > 0
        THEN The({[ok |-> rd.ok, data |-> from_buffer \o rd.data, net_buffer |-> nb,
                   sock |-> rd.sock] :
                  rd \in {ssh_net_read_all(sock, want - len_from_buffer, io_ok)}})
        ELSE [ok |-> TRUE, data |-> from_buffer, net_buffer |-> nb, sock |-> sock]

\* verify_read_packet taking a padding as long as the whole packet_length
verify_read_packet_pad_off_by_one(st) ==
    LET block_len == IF st.cipher_block_len # 0 THEN st.cipher_block_len % 256 ELSE 8
    IN  IF st.pack.data[5] < 4 \/ st.pack.data[5] > st.pack.len - 4 THEN "padding"
        ELSE IF st.pack.len % block_len # 0 THEN "align"
        ELSE IF st.mac_type = "none" THEN ""
        ELSE IF ~st.mac_ctx.live THEN "null_mac"
        ELSE IF ssh_mac_compute(st.mac_ctx, st.seq_num, BufData(st.pack))
                  # SubSeq(st.pack.data, st.pack.len + 1, st.pack.len + st.mac_len)
        THEN "mac"
        ELSE ""

\* verify_read_packet with the MAC of the packet left uncompared
verify_read_packet_skips_mac(st) ==
    LET block_len == IF st.cipher_block_len # 0 THEN st.cipher_block_len % 256 ELSE 8
    IN  IF st.pack.data[5] < 4 \/ st.pack.data[5] > st.pack.len - 5 THEN "padding"
        ELSE IF st.pack.len % block_len # 0 THEN "align"
        ELSE IF st.mac_type = "none" THEN ""
        ELSE IF ~st.mac_ctx.live THEN "null_mac"
        ELSE ""

\* verify_read_packet: "" when the packet in pack is good, else what is wrong
verify_read_packet(st) ==
    LET block_len == IF st.cipher_block_len # 0 THEN st.cipher_block_len % 256 ELSE 8
    IN  IF st.pack.data[5] < 4 \/ st.pack.data[5] > st.pack.len - 5 THEN "padding"
        ELSE IF st.pack.len % block_len # 0 THEN "align"
        ELSE IF st.mac_type = "none" THEN ""
        ELSE IF ~st.mac_ctx.live THEN "null_mac"
        ELSE IF ssh_mac_compute(st.mac_ctx, st.seq_num, BufData(st.pack))
                  # SubSeq(st.pack.data, st.pack.len + 1, st.pack.len + st.mac_len)
        THEN "mac"
        ELSE ""

\* the length-bound check on the decoded pack_len (a u32)
InvalidPackLen(pack_len) ==
    pack_len = U32Zero \/ pack_len[1] > 1 \/ (pack_len[1] = 1 /\ pack_len[2] > 0)

\* what a call of ssh_stream_recv_packet comes to: err names the step that
\* failed; requested lists the data_len of every stream_recv_data call; ub:
\* the failure is a use of a NULL context or a crypt over a wrapped length
RecvResult(ret, err, st, sock, pack_len, requested, ub) ==
    [ret |-> ret, err |-> err, st |-> st, sock |-> sock, pack_len |-> pack_len,
     requested |-> requested, ub |-> ub]

\* first_block_len taken to be 8 whatever the cipher
FirstBlockLenIs8(st) == 8

\* first_block_len of ssh_stream_recv_packet
FirstBlockLen(st) == IF st.cipher_block_len = 0 THEN 8 ELSE st.cipher_block_len

\* the end of ssh_stream_recv_packet with a packet of a bad MAC counted
\* like a good one
recv_verify_counts_bad_mac(st, sock, pack_len, req) ==
    The({IF v = "" THEN RecvResult(0, "", [st EXCEPT !.seq_num = U32Inc(@)],
                                   sock, pack_len, req, FALSE)
         ELSE IF v = "mac"
         THEN RecvResult(-1, v, [st EXCEPT !.seq_num = U32Inc(@)], sock, pack_len, req, FALSE)
         ELSE RecvResult(-1, v, st, sock, pack_len, req, v = "null_mac") :
         v \in {verify_read_packet(st)}})

\* the end of ssh_stream_recv_packet with the packet counted before it is
\* verified
recv_verify_counts_first(st, sock, pack_len, req) ==
    The({IF v = "" THEN RecvResult(0, "", [st EXCEPT !.seq_num = U32Inc(@)],
                                   sock, pack_len, req, FALSE)
         ELSE RecvResult(-1, v, [st EXCEPT !.seq_num = U32Inc(@)], sock, pack_len, req,
                         v = "null_mac") :
         v \in {verify_read_packet(st)}})

\* ssh_stream_recv_packet, the end: verify the packet held in pack, then
\* count it
recv_verify(st, sock, pack_len, req) ==
    The({IF v = "" THEN RecvResult(0, "", [st EXCEPT !.seq_num = U32Inc(@)],
                                   sock, pack_len, req, FALSE)
         ELSE RecvResult(-1, v, st, sock, pack_len, req, v = "null_mac") :
         v \in {verify_read_packet(st)}})

\* ssh_stream_recv_packet, the rest of the packet: r2 is the outcome of its
\* read; first and first_plain are the first block as read and as decrypted
recv_rest(st, r2, first, first_plain, pack_len, rem, req) ==
    LET enc == st.cipher_type # "none"
        plen == U32ToInt(pack_len)
        rp == [data |-> first \o r2.data, len |-> plen + 4]
        sc == IF enc THEN [st EXCEPT !.pack_enc = rp, !.net_buffer = r2.net_buffer]
              ELSE [st EXCEPT !.pack = rp, !.net_buffer = r2.net_buffer]
        body_len == rem - st.mac_len
    IN  IF ~r2.ok THEN RecvResult(-1, "read_rest", sc, r2.sock, pack_len, req, FALSE)
        ELSE IF ~enc THEN recv_verify(sc, r2.sock, pack_len, req)
        ELSE IF body_len < 0
        THEN RecvResult(-1, "crypt_rest", sc, r2.sock, pack_len, req, TRUE)
        ELSE The({IF ~c2.ok
                  THEN RecvResult(-1, "crypt_rest", sc, r2.sock, pack_len, req, FALSE)
                  ELSE recv_verify(
                         [sc EXCEPT !.pack = [data |-> first_plain \o c2.out
                                                     \o SubSeq(r2.data, body_len + 1, rem),
                                              len |-> plen + 4],
                                    !.cipher_ctx = c2.ctx],
                         r2.sock, pack_len, req) :
                  c2 \in {ssh_cipher_crypt(st.cipher_ctx, SubSeq(r2.data, 1, body_len))}})

\* ssh_stream_recv_packet, the packet length: st holds the first block
\* (first as read, pack as decrypted); sock is what the socket still holds
recv_length(st, sock, first, io_ok, alloc_ok) ==
    LET first_block_len == FirstBlockLen(st)
        pack_len == ssh_buf_get_u32(st.pack.data)
        rem == U32ToInt(pack_len) + st.mac_len - first_block_len + 4
        remainder_len == U32Wrap(rem)
        req1 == <<U32OfInt(first_block_len)>>
        req2 == <<U32OfInt(first_block_len), remainder_len>>
    IN  IF InvalidPackLen(pack_len)
        THEN RecvResult(-1, "length", st, sock, pack_len, req1, FALSE)
        ELSE IF ~alloc_ok
        THEN RecvResult(-1, "alloc", st, sock, pack_len, req1, FALSE)
        ELSE The({recv_rest(st, r2, first, st.pack.data, pack_len, rem, req2) :
                  r2 \in {stream_recv_data(st.net_buffer, sock, remainder_len, io_ok)}})

\* ssh_stream_recv_packet, the first block: r1 is the outcome of its read
recv_first(st, r1, io_ok, alloc_ok) ==
    LET enc == st.cipher_type # "none"
        first_block_len == FirstBlockLen(st)
        rp == [data |-> r1.data, len |-> first_block_len]
        sa == IF enc THEN [st EXCEPT !.pack_enc = rp, !.net_buffer = r1.net_buffer]
              ELSE [st EXCEPT !.pack = rp, !.net_buffer = r1.net_buffer]
        req1 == <<U32OfInt(first_block_len)>>
    IN  IF ~r1.ok THEN RecvResult(-1, "read_first", sa, r1.sock, U32Zero, req1, FALSE)
        ELSE IF ~enc THEN The({recv_length(sb, r1.sock, r1.data, io_ok, alloc_ok) :
                               sb \in {sa}})
        ELSE The({IF ~c1.ok
                  THEN RecvResult(-1, "crypt_first", sa, r1.sock, U32Zero, req1,
                                  ~st.cipher_ctx.live)
                  ELSE The({recv_length(sb, r1.sock, r1.data, io_ok, alloc_ok) :
                            sb \in {[sa EXCEPT !.pack = [data |-> c1.out,
                                                         len |-> first_block_len],
                                               !.cipher_ctx = c1.ctx]}}) :
                  c1 \in {ssh_cipher_crypt(st.cipher_ctx, r1.data)}})

\* ssh_stream_recv_packet(stream, sock).  io_ok: the socket reads do not fail
\* with an I/O error; alloc_ok: the buffer for the rest of the packet is got.
ssh_stream_recv_packet(st, sock, io_ok, alloc_ok) ==
    The({recv_first(st, r1, io_ok, alloc_ok) :
         r1 \in {stream_recv_data(st.net_buffer, sock, U32OfInt(FirstBlockLen(st)), io_ok)}})

\* the payload a received packet exposes: the octets of pack at offset 5
\* up to pack_len + 4 - pad_len (exclusive)
PacketPayload(pack) == SubSeq(pack.data, 6, pack.len - pack.data[5])

(***************************************************************************)
(* State of the stream model.                                              *)
(*   stream  : the two SSH_STREAMs, "tx" (outbound) and "rx" (inbound)     *)
(*   wire    : the octets written to the socket and not yet read           *)
(*   phase   : the sending caller's position: "idle" or "built"            *)
(*   crashed : a call ran into undefined behaviour and the process died    *)
(*   ev      : the last call and its outcome                               *)
(*   rt      : the packet in flight that was sent in step with rx          *)
(*   hist    : counts of what has happened                                 *)
(*   lim     : what a run may do (set by Init, never changed)              *)
(***************************************************************************)
Streams == {"tx", "rx"}

Hello == <<5, 104, 101, 108, 108, 111>>

\* a payload of n octets
PayloadOfLen(n) == [i \in 1..n |-> (i * 37 + n) % 256]

\* the payloads of the single round trips: one of each length, and "hello"
Payloads == {PayloadOfLen(n) : n \in 0..MaxPayloadLen} \cup {Hello}

\* the payloads of the longer runs
FewPayloads == {Hello, PayloadOfLen(3)}

\* sequence numbers the streams hold when a run starts: both streams are
\* fresh, or both have carried 2^32 - 1 packets
StartSeqs == {U32Zero, <<65535, 65535>>}

NoRt == [active |-> FALSE, payload |-> <<>>, bytes |-> <<>>]

Ev(op, s, ret, err, seq_before, payload, bytes, pack_len, requested, rtpre, fault) ==
    [op |-> op, s |-> s, ret |-> ret, err |-> err, seq_before |-> seq_before,
     payload |-> payload, bytes |-> bytes, pack_len |-> pack_len,
     requested |-> requested, rt |-> rtpre, fault |-> fault]

NoEv == Ev("init", "tx", 0, "", U32Zero, <<>>, <<>>, U32Zero, <<>>, NoRt, "")

\* tx and rx are in step: same cipher, key and chain state, same MAC and key,
\* same sequence number, and nothing in flight or read ahead
InStep ==
    /\ stream["tx"].cipher_type = stream["rx"].cipher_type
    /\ stream["tx"].cipher_ctx.live = (stream["tx"].cipher_type # "none")
    /\ stream["rx"].cipher_ctx.live = (stream["rx"].cipher_type # "none")
    /\ stream["tx"].cipher_ctx.key = stream["rx"].cipher_ctx.key
    /\ stream["tx"].cipher_ctx.ctr = stream["rx"].cipher_ctx.ctr
    /\ stream["tx"].mac_type = stream["rx"].mac_type
    /\ stream["tx"].mac_ctx.live = (stream["tx"].mac_type # "none")
    /\ stream["rx"].mac_ctx.live = (stream["rx"].mac_type # "none")
    /\ stream["tx"].mac_ctx.key = stream["rx"].mac_ctx.key
    /\ stream["tx"].seq_num = stream["rx"].seq_num
    /\ wire = <<>>
    /\ stream["rx"].net_buffer = <<>>

Dir(s) == IF s = "tx" THEN "encrypt" ELSE "decrypt"

Km(k) == CHOOSE km \in KeyMaterial : km.key = k

\* a stream after ssh_stream_init, seq packets, and the installs of a key
\* exchange: cipher c and MAC m ("none": no install) with key material km
Installed(s, seq, c, m, km) ==
    LET s0 == [ssh_stream_init EXCEPT !.seq_num = seq]
        s1 == IF c = "none" THEN s0
              ELSE ssh_stream_set_cipher(s0, c, Dir(s), km, TRUE).st
    IN  IF m = "none" THEN s1 ELSE ssh_stream_set_mac(s1, m, km, TRUE).st

\* the configurations a run starts in: the sender holds key material 1, the
\* receiver the same (in step) or key material 2
Configs(ciphers, macs, rxkeys) ==
    {[c |-> c, m |-> m, k |-> k] : c \in ciphers, m \in macs, k \in rxkeys}

PadIdle == [len |-> 0, block |-> 0, pad_len |-> 0, done |-> FALSE]

\* string: a u32 length prefix and the octets
SshString(s) == U32Bytes(U32OfInt(Len(s))) \o s

\* ssh_buf_read_string(buf, pos): the string that starts at octet pos of buf
\* and the position after it, or a failure when buf ends before it does
ssh_buf_read_string(buf, pos) ==
    IF pos + 3 > Len(buf) THEN [ok |-> FALSE, val |-> <<>>, pos |-> pos]
    ELSE The({IF pos + 3 + n > Len(buf) THEN [ok |-> FALSE, val |-> <<>>, pos |-> pos]
              ELSE [ok |-> TRUE, val |-> SubSeq(buf, pos + 4, pos + 3 + n),
                    pos |-> pos + 4 + n] :
              n \in {U32ToInt(ssh_buf_get_u32(SubSeq(buf, pos, pos + 3)))}})

\* the group of the exchange, a small one in place of the 1024-bit and
\* 2048-bit groups of dh_algos: modulus and generator
DhModulus == 251
DhGen == 2

\* b^e mod m
RECURSIVE ModExp(_, _, _)
ModExp(b, e, m) == IF e = 0 THEN 1 % m ELSE (b * ModExp(b, e - 1, m)) % m

\* mpint: the two's-complement big-endian octets of v, 0 <= v < 256, with a
\* leading zero octet when the high bit is set
MpintOf(v) == IF v = 0 THEN <<>> ELSE IF v >= 128 THEN <<0, v>> ELSE <<v>>

\* the number an mpint of up to two octets holds
MpintValue(s) ==
    IF s = <<>> THEN 0
    ELSE IF Len(s) = 1 THEN (IF s[1] >= 128 THEN s[1] - 256 ELSE s[1])
    ELSE IF s[1] >= 128 THEN s[1] * 256 + s[2] - 65536
    ELSE s[1] * 256 + s[2]

\* the values of f a KEXDH_REPLY may carry: 0, 1, 2, 9, p - 2, p - 1, p, and
\* a negative number
DhReplyValues == {<<>>, <<1>>, <<2>>, <<9>>, <<0, 249>>, <<0, 250>>, <<0, 251>>, <<200>>}

\* the client's secret exponents
DhSecrets == {3, 7}

\* what one exchange works on: the client's secret x, the version strings,
\* the KEXINIT payloads, and the fields of the server's KEXDH_REPLY
KexDatas ==
    [x : DhSecrets, V_C : {<<67>>, <<67, 83>>, <<68, 83>>}, V_S : {<<83>>, <<83, 83>>},
     I_C : {<<20, 1>>}, I_S : {<<20, 2>>, <<20, 3>>},
     K_S : {<<75, 1>>, <<75, 2>>}, f : DhReplyValues, sig : {<<9>>}]

DefaultKexData ==
    [x |-> 3, V_C |-> <<67>>, V_S |-> <<83>>, I_C |-> <<20, 1>>, I_S |-> <<20, 2>>,
     K_S |-> <<75, 1>>, f |-> <<9>>, sig |-> <<9>>]

\* no hash computed
NoHash == [type |-> "none", of |-> <<>>]

KexIdle ==
    [pc |-> "idle", log |-> <<>>, reply_ret |-> 0, ret |-> 0,
     sent |-> <<>>, K |-> <<>>, H |-> NoHash,
     in |-> [type |-> "other", dh_new |-> FALSE, send_init |-> "ok", recv |-> FALSE,
             pkt_type |-> 0, read_fields |-> FALSE, compute_key |-> FALSE,
             hash |-> "ok", verify_signature |-> FALSE, check_identity |-> FALSE,
             finish |-> 0, data |-> DefaultKexData]]

\* the start of a run: streams configured by cfg with seq packets behind them
Start(cfg, seq, l) ==
    /\ stream = [s \in Streams |->
                    Installed(s, seq, cfg.c, cfg.m, Km(IF s = "tx" THEN 1 ELSE cfg.k))]
    /\ hist = [start |-> seq, builds |-> 0, installs |-> 0, tampers |-> 0,
               injects |-> 0, readaheads |-> 0, sends_ok |-> 0, recvs_ok |-> 0]
    /\ lim = l
    /\ wire = <<>>
    /\ phase = "idle"
    /\ crashed = FALSE
    /\ ev = NoEv
    /\ rt = NoRt

\* the start of a run of the stream: nothing else is going on
Run(cfg, seq, l) == Start(cfg, seq, l) /\ pad = PadIdle /\ kex = KexIdle

\* a call of ssh_stream_set_cipher on stream s
SetCipher(s, type, km, new_ok) ==
    /\ ~crashed
    /\ hist.installs < lim.installs
    /\ LET r == ssh_stream_set_cipher(stream[s], type, Dir(s), km, new_ok)
       IN  /\ stream' = [stream EXCEPT ![s] = r.st]
           /\ ev' = Ev("set_cipher", s, r.ret, "", stream[s].seq_num, <<>>, <<>>,
                       U32Zero, <<>>, rt, IF new_ok THEN "" ELSE "new")
    /\ hist' = [hist EXCEPT !.installs = @ + 1]
    /\ rt' = NoRt
    /\ UNCHANGED <<wire, phase, crashed, lim, pad, kex>>

\* a call of ssh_stream_set_mac on stream s
SetMac(s, type, km, new_ok) ==
    /\ ~crashed
    /\ hist.installs < lim.installs
    /\ LET r == ssh_stream_set_mac(stream[s], type, km, new_ok)
       IN  /\ stream' = [stream EXCEPT ![s] = r.st]
           /\ ev' = Ev("set_mac", s, r.ret, "", stream[s].seq_num, <<>>, <<>>,
                       U32Zero, <<>>, rt, IF new_ok THEN "" ELSE "new")
    /\ hist' = [hist EXCEPT !.installs = @ + 1]
    /\ rt' = NoRt
    /\ UNCHANGED <<wire, phase, crashed, lim, pad, kex>>

\* the caller starts a packet (ssh_stream_new_packet) and writes payload p
NewPacket(p) ==
    /\ ~crashed
    /\ phase = "idle"
    /\ hist.builds < lim.sends
    /\ stream' = [stream EXCEPT !["tx"].pack =
                     BufAppend(ssh_stream_new_packet(stream["tx"]).pack, p)]
    /\ phase' = "built"
    /\ hist' = [hist EXCEPT !.builds = @ + 1]
    /\ ev' = Ev("new_packet", "tx", 0, "", stream["tx"].seq_num, p, <<>>,
                U32Zero, <<>>, rt, "")
    /\ UNCHANGED <<wire, crashed, rt, lim, pad, kex>>

\* a call of ssh_stream_send_packet on tx
SendPacket(rnd, alloc_ok, wr) ==
    /\ ~crashed
    /\ phase = "built"
    /\ \E r \in {ssh_stream_send_packet(stream["tx"], rnd, alloc_ok, wr)} : LET st == stream["tx"]
           payload == SubSeq(st.pack.data, 6, st.pack.len)
       IN  \E ubc \in (IF r.null THEN {"ret", "crash"} ELSE {"ret"}) :
             /\ stream' = [stream EXCEPT !["tx"] = r.st]
             /\ wire' = wire \o r.out
             /\ crashed' = (ubc = "crash")
             /\ ev' = Ev("send", "tx", IF ubc = "crash" THEN -9 ELSE r.ret,
                         IF ubc = "crash" THEN "crash" ELSE r.err,
                         st.seq_num, payload, r.bytes, U32Zero, <<>>, rt,
                         IF ~alloc_ok THEN "alloc" ELSE wr)
             /\ rt' = IF rt.active THEN rt
                      ELSE IF r.ret = 0 /\ InStep
                      THEN [active |-> TRUE, payload |-> payload, bytes |-> r.out]
                      ELSE NoRt
             /\ hist' = [hist EXCEPT !.sends_ok = @ + (IF r.ret = 0 THEN 1 ELSE 0)]
    /\ phase' = "idle"
    /\ UNCHANGED <<lim, pad, kex>>

\* a call of ssh_stream_recv_packet on rx, once the socket or the read-ahead
\* buffer holds something
RecvPacket(io_ok, alloc_ok) ==
    /\ ~crashed
    /\ wire # <<>> \/ stream["rx"].net_buffer # <<>>
    /\ \E r \in {ssh_stream_recv_packet(stream["rx"], wire, io_ok, alloc_ok)} : LET st == stream["rx"]
           taken == (Len(st.net_buffer) - Len(r.st.net_buffer)) + (Len(wire) - Len(r.sock))
       IN  \E ubc \in (IF r.ub THEN {"ret", "crash"} ELSE {"ret"}) :
             /\ stream' = [stream EXCEPT !["rx"] = r.st]
             /\ wire' = r.sock
             /\ crashed' = (ubc = "crash")
             /\ ev' = Ev("recv", "rx", IF ubc = "crash" THEN -9 ELSE r.ret,
                         IF ubc = "crash" THEN "crash" ELSE r.err,
                         st.seq_num,
                         IF r.ret = 0 THEN PacketPayload(r.st.pack) ELSE <<>>,
                         SubSeq(st.net_buffer \o wire, 1, taken),
                         r.pack_len, r.requested, rt,
                         IF ~io_ok THEN "io" ELSE IF ~alloc_ok THEN "alloc" ELSE "")
             /\ hist' = [hist EXCEPT !.recvs_ok = @ + (IF r.ret = 0 THEN 1 ELSE 0)]
    /\ rt' = NoRt
    /\ UNCHANGED <<phase, lim, pad, kex>>

(***************************************************************************)
(* The network between the peers: it may alter an octet in transit, may    *)
(* deliver a packet of its own making, and the receiving transport may     *)
(* read octets ahead into net_buffer.                                      *)
(***************************************************************************)
\* changes applied to an octet in transit: the lowest and the highest bit
TamperDeltas == {1, 128}

\* the octets of the wire the network may alter: the low octet of the length,
\* the padding length, the first payload octet, the last octet of the payload
\* of a "hello" packet, and the last octet in flight (MAC or padding)
TamperPositions == {4, 5, 6, 11, Len(wire)}

\* one octet of the wire is altered in transit
Tamper(pos, delta) ==
    /\ ~crashed
    /\ hist.tampers < lim.tampers
    /\ pos \in 1..Len(wire)
    /\ wire' = [wire EXCEPT ![pos] = (@ + delta) % 256]
    /\ hist' = [hist EXCEPT !.tampers = @ + 1]
    /\ ev' = Ev("tamper", "rx", 0, "", stream["rx"].seq_num, <<>>, <<pos>>,
                U32Zero, <<>>, rt, "")
    /\ rt' = NoRt
    /\ UNCHANGED <<stream, phase, crashed, lim, pad, kex>>

\* the packet_length fields of injected packets
InjectLens ==
    {U32Zero, <<0, 1>>, <<0, 3>>, <<0, 9>>, <<0, 12>>, <<0, 28>>,
     <<0, 65535>>, <<1, 0>>, <<1, 1>>, <<65535, 65535>>}

\* the padding_length octets of injected packets
InjectPads == {0, 3, 4, 7, 8, 11, 12, 24, 255}

\* the octets of an injected packet before encryption: the length field,
\* the padding length, and filler up to packet_length + 4 octets (a packet
\* announcing more than 28 octets is cut short after 16)
InjectPlain(pack_len, pad_len) ==
    LET n == IF pack_len[1] = 0 /\ pack_len[2] \in 1..28 THEN pack_len[2] + 4 ELSE 16
    IN  SubSeq(U32Bytes(pack_len) \o <<pad_len>> \o Fill(n, 42), 1, IF n < 5 THEN 5 ELSE n)

\* the network delivers a packet of its own making, followed by mac_len
\* octets in place of a MAC
Inject(pack_len, pad_len) ==
    /\ ~crashed
    /\ hist.injects < lim.injects
    /\ wire = <<>>
    /\ stream["rx"].net_buffer = <<>>
    /\ LET st == stream["rx"]
           plain == InjectPlain(pack_len, pad_len)
           body == IF st.cipher_type # "none" /\ st.cipher_ctx.live
                   THEN CryptBytes([st.cipher_ctx EXCEPT !.dir = "encrypt"], plain)
                   ELSE plain
       IN  wire' = body \o Fill(st.mac_len, 0)
    /\ hist' = [hist EXCEPT !.injects = @ + 1]
    /\ ev' = Ev("inject", "rx", 0, "", stream["rx"].seq_num, <<>>, <<>>,
                pack_len, <<>>, rt, "")
    /\ rt' = NoRt
    /\ UNCHANGED <<stream, phase, crashed, lim, pad, kex>>

\* how many octets a read-ahead may take
ReadAheadSizes == {3, 8, 21}

\* the receiving transport reads k octets of the socket ahead into net_buffer
ReadAhead(k) ==
    /\ ~crashed
    /\ hist.readaheads < lim.readaheads
    /\ stream["rx"].net_buffer = <<>>
    /\ k \in 1..Len(wire)
    /\ stream' = [stream EXCEPT !["rx"].net_buffer = SubSeq(wire, 1, k)]
    /\ wire' = SubSeq(wire, k + 1, Len(wire))
    /\ ev' = Ev("read_ahead", "rx", 0, "", stream["rx"].seq_num, <<>>,
                SubSeq(wire, 1, k), U32Zero, <<>>, rt, "")
    /\ hist' = [hist EXCEPT !.readaheads = @ + 1]
    /\ UNCHANGED <<phase, crashed, rt, lim, pad, kex>>

Limits(sends, installs, tampers, injects, readaheads) ==
    [sends |-> sends, installs |-> installs, tampers |-> tampers,
     injects |-> injects, readaheads |-> readaheads]

\* every cipher and MAC of the tables, the receiver keyed like the sender or not
AllConfigs ==
    Configs({"none", "3des-cbc", "aes128-cbc"},
            {"none", "hmac-sha1", "hmac-sha2-256"}, {1, 2})

\* a cipher or none, a MAC or none, the receiver keyed like the sender;
\* and one configuration with the receiver keyed otherwise
SomeConfigs ==
    Configs({"none", "aes128-cbc"}, {"none", "hmac-sha1"}, {1})
        \cup Configs({"aes128-cbc"}, {"hmac-sha1"}, {2})

(***************************************************************************)
(* Spec: the two peers exchange up to MaxSends packets; allocations, the   *)
(* socket write and the socket read may fail.                              *)
(***************************************************************************)
Init ==
    \E cfg \in SomeConfigs, seq \in StartSeqs :
       Run(cfg, seq, Limits(MaxSends, 0, 0, 0, 0))

Next ==
    \/ \E p \in FewPayloads : NewPacket(p)
    \/ \E rnd \in RandSeeds, alloc_ok \in BOOLEAN, wr \in WriteOutcomes :
          SendPacket(rnd, alloc_ok, wr)
    \/ \E io_ok \in BOOLEAN, alloc_ok \in BOOLEAN : RecvPacket(io_ok, alloc_ok)

Spec == Init /\ [][Next]_vars

(***************************************************************************)
(* SpecRT: single round trips of every payload length under every          *)
(* configuration, with read-ahead.                                         *)
(***************************************************************************)
InitRT ==
    \E cfg \in AllConfigs, seq \in StartSeqs :
       Run(cfg, seq, Limits(1, 0, 0, 0, MaxReadAhead))

NextRT ==
    \/ \E p \in Payloads : NewPacket(p)
    \/ \E rnd \in RandSeeds, alloc_ok \in BOOLEAN, wr \in WriteOutcomes :
          SendPacket(rnd, alloc_ok, wr)
    \/ \E io_ok \in BOOLEAN, alloc_ok \in BOOLEAN : RecvPacket(io_ok, alloc_ok)
    \/ \E k \in ReadAheadSizes : ReadAhead(k)

SpecRT == InitRT /\ [][NextRT]_vars

(***************************************************************************)
(* SpecNet: fault-free peers over a network that alters octets in transit. *)
(***************************************************************************)
InitNet ==
    \E cfg \in SomeConfigs :
       Run(cfg, U32Zero, Limits(MaxSends, 0, MaxTamper, 0, 0))

NextNet ==
    \/ NewPacket(Hello)
    \/ \E rnd \in RandSeeds : SendPacket(rnd, TRUE, "ok")
    \/ RecvPacket(TRUE, TRUE)
    \/ \E pos \in TamperPositions, delta \in TamperDeltas : Tamper(pos, delta)

SpecNet == InitNet /\ [][NextNet]_vars

(***************************************************************************)
(* SpecInject: the network delivers packets of its own making.             *)
(***************************************************************************)
InitInject ==
    \E cfg \in AllConfigs, seq \in StartSeqs :
       Run(cfg, seq, Limits(0, 0, 0, MaxInject, 0))

NextInject ==
    \/ \E pack_len \in InjectLens, pad_len \in InjectPads : Inject(pack_len, pad_len)
    \/ \E io_ok \in BOOLEAN, alloc_ok \in BOOLEAN : RecvPacket(io_ok, alloc_ok)

SpecInject == InitInject /\ [][NextInject]_vars

(***************************************************************************)
(* SpecKeys: keys are installed on configured streams while packets flow.  *)
(***************************************************************************)
InitKeys ==
    \E cfg \in SomeConfigs, seq \in StartSeqs :
       Run(cfg, seq, Limits(MaxKeySends, MaxInstalls, 0, 0, 0))

NextKeys ==
    \/ \E s \in Streams, type \in CipherTypes, km \in KeyMaterial, new_ok \in BOOLEAN :
          SetCipher(s, type, km, new_ok)
    \/ \E s \in Streams, type \in MacTypes, km \in KeyMaterial, new_ok \in BOOLEAN :
          SetMac(s, type, km, new_ok)
    \/ NewPacket(Hello)
    \/ \E rnd \in RandSeeds : SendPacket(rnd, TRUE, "ok")
    \/ RecvPacket(TRUE, TRUE)

SpecKeys == InitKeys /\ [][NextKeys]_vars

(***************************************************************************)
(* SpecPad: calc_pad_len applied to every packet length and every 8-bit    *)
(* block size.                                                             *)
(***************************************************************************)
InitPad ==
    /\ Start([c |-> "none", m |-> "none", k |-> 1], U32Zero, Limits(0, 0, 0, 0, 0))
    /\ kex = KexIdle
    /\ \E n \in 0..MaxPadPayload, b \in 0..255 :
          pad = [len |-> 5 + n, block |-> b, pad_len |-> 0, done |-> FALSE]

CalcPad ==
    /\ ~pad.done
    /\ pad' = [pad EXCEPT !.pad_len = calc_pad_len(pad.len, pad.block), !.done = TRUE]
    /\ UNCHANGED <<stream, wire, phase, crashed, ev, rt, hist, lim, kex>>

NextPad == CalcPad

SpecPad == InitPad /\ [][NextPad]_vars

(***************************************************************************)
(* The Diffie-Hellman key exchange driver (src/ssh/kex_dh.c).  The calls   *)
(* it makes into the connection, the DH arithmetic, the hash, the host-key *)
(* signature check and the host-key verifier are collaborators: env holds  *)
(* what each of them answers in one run.                                   *)
(***************************************************************************)
SSH_MSG_DISCONNECT == 1
SSH_MSG_NEWKEYS == 21
SSH_MSG_KEXDH_INIT == 30
SSH_MSG_KEXDH_REPLY == 31

\* the kex types a run may be started with; dh_algos holds the first two
KexTypes == {"SSH_KEX_DH_GROUP_1", "SSH_KEX_DH_GROUP_14", "other"}

\* the message numbers the packet answering KEXDH_INIT may carry
ReplyTypes == {SSH_MSG_KEXDH_REPLY, SSH_MSG_KEXDH_INIT, SSH_MSG_NEWKEYS, SSH_MSG_DISCONNECT}

\* the answers of the collaborators in one run over the data of datas
KexEnvsOver(datas) ==
    [type : KexTypes, dh_new : BOOLEAN, send_init : {"ok", "get_pubkey", "new_packet",
                                                      "write", "send_packet"},
     recv : BOOLEAN, pkt_type : ReplyTypes, read_fields : BOOLEAN,
     compute_key : BOOLEAN, hash : {"ok", "get_pubkey", "kex_hash"},
     verify_signature : BOOLEAN, check_identity : BOOLEAN, finish : {0, -1},
     data : datas]

\* the answers of the collaborators in one run
KexEnvs == KexEnvsOver({DefaultKexData})

\* crypto_dh_get_pubkey(dh, e): e = g^x mod p as an mpint
crypto_dh_get_pubkey(d) == MpintOf(ModExp(DhGen, d.x, DhModulus))

\* crypto_dh_compute_key taking every f
crypto_dh_compute_key_unchecked(d, f, ok) ==
    IF ~ok THEN [ok |-> FALSE, key |-> <<>>]
    ELSE [ok |-> TRUE, key |-> MpintOf(ModExp(MpintValue(f) % DhModulus, d.x, DhModulus))]

\* crypto_dh_compute_key(dh, shared_secret, server_pubkey): f is refused
\* when f <= 1 or f >= p - 1, else K = f^x mod p as an mpint; ok: nothing
\* else fails
crypto_dh_compute_key(d, f, ok) ==
    IF ~ok \/ MpintValue(f) <= 1 \/ MpintValue(f) >= DhModulus - 1
    THEN [ok |-> FALSE, key |-> <<>>]
    ELSE [ok |-> TRUE, key |-> MpintOf(ModExp(MpintValue(f), d.x, DhModulus))]

\* ssh_hash_compute(type, out, in): an injective hash
ssh_hash_compute(type, in) == [type |-> type, of |-> in]

\* dh_kex_hash with the version strings written without their lengths
dh_kex_hash_raw_versions(d, server_host_key, client_pubkey, server_pubkey, shared_secret) ==
    ssh_hash_compute("sha1",
        d.V_C \o d.V_S \o SshString(d.I_C) \o SshString(d.I_S)
          \o SshString(server_host_key) \o SshString(client_pubkey)
          \o SshString(server_pubkey) \o SshString(shared_secret))

\* dh_kex_hash(ret_hash, hash_type, server_host_key, client_pubkey,
\* server_pubkey, shared_secret, conn, kex)
dh_kex_hash(d, server_host_key, client_pubkey, server_pubkey, shared_secret) ==
    ssh_hash_compute("sha1",
        SshString(d.V_C) \o SshString(d.V_S) \o SshString(d.I_C) \o SshString(d.I_S)
          \o SshString(server_host_key) \o SshString(client_pubkey)
          \o SshString(server_pubkey) \o SshString(shared_secret))

\* the packet that answers KEXDH_INIT: its type, K_S, f and the signature;
\* it is cut short when env.read_fields is FALSE
ReplyPacket(env) ==
    LET full == <<env.pkt_type>> \o SshString(env.data.K_S) \o SshString(env.data.f)
                  \o SshString(env.data.sig)
    IN  IF env.read_fields THEN full ELSE SubSeq(full, 1, Len(full) - 1)

\* the fields dh_kex_read_reply reads from the packet
ReadReply(pack) ==
    The({The({The({[ok |-> ks.ok /\ f.ok /\ sg.ok, server_host_key |-> ks.val,
                    server_pubkey |-> f.val, server_hash_sig |-> sg.val] :
                   sg \in {ssh_buf_read_string(pack, f.pos)}}) :
              f \in {ssh_buf_read_string(pack, ks.pos)}}) :
         ks \in {ssh_buf_read_string(pack, 2)}})

\* one call made, and whether it succeeded
Step(name, ok) == [step |-> name, ok |-> ok]

\* a run of calls each of which is left at its first failure: the calls made
RECURSIVE UpToFailure(_)
UpToFailure(steps) ==
    IF steps = <<>> THEN <<>>
    ELSE IF ~Head(steps).ok THEN <<Head(steps)>>
    ELSE <<Head(steps)>> \o UpToFailure(Tail(steps))

\* 0 when every call of the run succeeded, else -1
RetOf(log, steps) == IF Len(log) = Len(steps) /\ \A i \in 1..Len(log) : log[i].ok THEN 0 ELSE -1

\* kex_dh_get_algo(type): whether dh_algos holds the type
kex_dh_get_algo(type) == type \in {"SSH_KEX_DH_GROUP_1", "SSH_KEX_DH_GROUP_14"}

\* dh_kex_send_init_msg(dh, conn)
dh_kex_send_init_msg(env) ==
    LET steps == <<Step("init_get_pubkey", env.send_init # "get_pubkey"),
                   Step("new_packet", env.send_init # "new_packet"),
                   Step("write_init", env.send_init # "write"),
                   Step("send_packet", env.send_init # "send_packet")>>
    IN  The({[ret |-> RetOf(log, steps), log |-> log,
              sent |-> IF Len(log) >= 3 /\ log[3].ok
                       THEN <<SSH_MSG_KEXDH_INIT>> \o SshString(crypto_dh_get_pubkey(env.data))
                       ELSE <<>>] :
             log \in {UpToFailure(steps)}})

\* what dh_kex_read_reply leaves: its result, the calls it made, the shared
\* secret and the exchange hash it computed
ReplyResult(steps, ck, h) ==
    The({[ret |-> RetOf(log, steps), log |-> log,
          K |-> IF Len(log) >= 4 /\ log[4].ok THEN ck.key ELSE <<>>,
          H |-> IF Len(log) >= 6 /\ log[6].ok THEN h ELSE NoHash] :
         log \in {UpToFailure(steps)}})

\* dh_kex_read_reply with the host-key verifier left out
read_reply_no_identity(env) ==
    The({The({ReplyResult(<<Step("recv_packet", env.recv),
                            Step("packet_type", env.pkt_type = SSH_MSG_KEXDH_REPLY),
                            Step("read_fields", rd.ok),
                            Step("compute_key", ck.ok),
                            Step("get_pubkey", env.hash # "get_pubkey"),
                            Step("kex_hash", env.hash # "kex_hash"),
                            Step("verify_signature", env.verify_signature),
                            Step("kex_finish", env.finish = 0)>>,
                          ck,
                          dh_kex_hash(env.data, rd.server_host_key,
                                      crypto_dh_get_pubkey(env.data),
                                      rd.server_pubkey, ck.key)) :
              ck \in {crypto_dh_compute_key(env.data, rd.server_pubkey, env.compute_key)}}) :
         rd \in {ReadReply(ReplyPacket(env))}})

\* dh_kex_read_reply(dh, conn, kex): the calls made, in order, each left with
\* -1 at its failure; the last is ssh_kex_finish, whose result is returned
dh_kex_read_reply(env) ==
    The({The({ReplyResult(<<Step("recv_packet", env.recv),
                            Step("packet_type", env.pkt_type = SSH_MSG_KEXDH_REPLY),
                            Step("read_fields", rd.ok),
                            Step("compute_key", ck.ok),
                            Step("get_pubkey", env.hash # "get_pubkey"),
                            Step("kex_hash", env.hash # "kex_hash"),
                            Step("verify_signature", env.verify_signature),
                            Step("check_identity", env.check_identity),
                            Step("kex_finish", env.finish = 0)>>,
                          ck,
                          dh_kex_hash(env.data, rd.server_host_key,
                                      crypto_dh_get_pubkey(env.data),
                                      rd.server_pubkey, ck.key)) :
              ck \in {crypto_dh_compute_key(env.data, rd.server_pubkey, env.compute_key)}}) :
         rd \in {ReadReply(ReplyPacket(env))}})

\* ssh_kex_dh_run(conn, kex): reply_ret is what dh_kex_read_reply returned
\* (1 when it was not called)
ssh_kex_dh_run(env) ==
    LET head == UpToFailure(<<Step("get_algo", kex_dh_get_algo(env.type)),
                              Step("dh_new", env.dh_new)>>)
        free == <<Step("dh_free", TRUE)>>
    IN  IF Len(head) < 2 \/ ~head[2].ok
        THEN [ret |-> -1, reply_ret |-> 1, log |-> head,
              sent |-> <<>>, K |-> <<>>, H |-> NoHash]
        ELSE The({IF s.ret < 0
                  THEN [ret |-> -1, reply_ret |-> 1, log |-> head \o s.log \o free,
                        sent |-> s.sent, K |-> <<>>, H |-> NoHash]
                  ELSE The({[ret |-> IF r.ret < 0 THEN -1 ELSE 0, reply_ret |-> r.ret,
                             log |-> head \o s.log \o r.log \o free,
                             sent |-> s.sent, K |-> r.K, H |-> r.H] :
                            r \in {dh_kex_read_reply(env)}}) :
                  s \in {dh_kex_send_init_msg(env)}})

\* one run of the key exchange; in keeps what the collaborators answered
KexDhRun(env) ==
    /\ kex.pc = "idle"
    /\ \E r \in {ssh_kex_dh_run(env)} :
          kex' = [pc |-> "done", log |-> r.log, reply_ret |-> r.reply_ret, ret |-> r.ret,
                  sent |-> r.sent, K |-> r.K, H |-> r.H, in |-> env]
    /\ UNCHANGED <<stream, wire, phase, crashed, ev, rt, hist, lim, pad>>

(***************************************************************************)
(* SpecKex: one run of the key exchange under every combination of         *)
(* answers of its collaborators.                                           *)
(***************************************************************************)
InitKex == Run([c |-> "none", m |-> "none", k |-> 1], U32Zero, Limits(0, 0, 0, 0, 0))

NextKex == kex.pc = "idle" /\ \E env \in KexEnvs : KexDhRun(env)

SpecKex == InitKex /\ [][NextKex]_vars

(***************************************************************************)
(* Properties.                                                             *)
(***************************************************************************)
\* v + 1 modulo 2^32, worked out on the two halves
Succ32(v) ==
    IF v[2] < 65535 THEN <<v[1], v[2] + 1>>
    ELSE IF v[1] < 65535 THEN <<v[1] + 1, 0>>
    ELSE <<0, 0>>

\* v + n modulo 2^32
RECURSIVE Add32(_, _)
Add32(v, n) == IF n = 0 THEN v ELSE Add32(Succ32(v), n - 1)

\* the larger of the cipher's block length and 8
EffBlock(st) == IF st.cipher_block_len < 8 THEN 8 ELSE st.cipher_block_len

\* C1: whenever the socket write of ssh_stream_send_packet fails, the
\* sending stream's seq_num still has the value it had before the call.
C1_SeqKeptWhenWriteFails ==
    (ev.op = "send" /\ ev.err = "write") => stream["tx"].seq_num = ev.seq_before

\* C2: a receive that decoded its first block rejects a pack_len of 0 or
\* above 65535 at the length-bound check (the call fails there, seq_num
\* unchanged), and a pack_len of 1..65535 passes that check.
C2_LengthBound65535 ==
    (ev.op = "recv" /\ ev.err \notin {"read_first", "crypt_first", "crash"}) =>
        IF ev.pack_len = U32Zero \/ ev.pack_len[1] >= 1
        THEN /\ ev.ret = -1
             /\ ev.err = "length"
             /\ stream["rx"].seq_num = ev.seq_before
        ELSE ev.err # "length"

\* the key exchange made the call `name'
KexCalled(name) == \E i \in 1..Len(kex.log) : kex.log[i].step = name

\* the key exchange made the call `name', and it failed
KexFailed(name) == \E i \in 1..Len(kex.log) : kex.log[i] = Step(name, FALSE)

\* C3: ssh_kex_finish is called only after, in this order, the packet type
\* was found to be SSH_MSG_KEXDH_REPLY, the signature verified and the
\* host-key verifier accepted; when any of the three fails,
\* dh_kex_read_reply and ssh_kex_dh_run return -1 and ssh_kex_finish is not
\* called.
C3_FinishOnlyAfterChecks ==
    kex.pc = "done" =>
        /\ KexCalled("kex_finish") =>
              /\ kex.in.pkt_type = SSH_MSG_KEXDH_REPLY
              /\ kex.in.verify_signature
              /\ kex.in.check_identity
              /\ \E i, j, k, l \in 1..Len(kex.log) :
                    /\ i < j /\ j < k /\ k < l
                    /\ kex.log[i] = Step("packet_type", TRUE)
                    /\ kex.log[j] = Step("verify_signature", TRUE)
                    /\ kex.log[k] = Step("check_identity", TRUE)
                    /\ kex.log[l].step = "kex_finish"
        /\ (KexFailed("packet_type") \/ KexFailed("verify_signature")
                \/ KexFailed("check_identity")) =>
              /\ kex.reply_ret = -1
              /\ kex.ret = -1
              /\ ~KexCalled("kex_finish")
        /\ (KexCalled("recv_packet") /\ kex.in.recv
              /\ (kex.in.pkt_type # SSH_MSG_KEXDH_REPLY \/ ~kex.in.verify_signature
                     \/ ~kex.in.check_identity)) =>
              /\ kex.ret = -1
              /\ ~KexCalled("kex_finish")

\* C3 witness: a run in which all three checks passed and ssh_kex_finish was
\* called and succeeded
C3_Witness ==
    /\ kex.pc = "done"
    /\ kex.ret = 0
    /\ kex.log[Len(kex.log) - 1] = Step("kex_finish", TRUE)

\* the MAC the receiver computes over seq_num and the plaintext packet it
\* holds, and the MAC octets that came with the packet
RxComputedMac(seq) == ssh_mac_compute(stream["rx"].mac_ctx, seq, BufData(stream["rx"].pack))

RxReceivedMac ==
    SubSeq(stream["rx"].pack.data, stream["rx"].pack.len + 1,
           stream["rx"].pack.len + stream["rx"].mac_len)

\* C4: with a MAC installed, a receive that finds the computed MAC to differ
\* from the MAC octets of the packet fails and leaves the receiver's seq_num
\* as it was; a receive succeeds only with the two equal.
C4_MacMismatchFails ==
    (ev.op = "recv" /\ stream["rx"].mac_type # "none") =>
        /\ ev.err = "mac" =>
              /\ ev.ret = -1
              /\ stream["rx"].seq_num = ev.seq_before
              /\ RxComputedMac(ev.seq_before) # RxReceivedMac
        /\ ev.ret = 0 => RxComputedMac(ev.seq_before) = RxReceivedMac

\* C4 witness: a receive failed on the MAC comparison
C4_Witness ==
    /\ ev.op = "recv"
    /\ ev.err = "mac"
    /\ stream["rx"].mac_type = "hmac-sha1"

\* C5: a receive of exactly the octets a send wrote, on streams that were
\* in step, succeeds, takes exactly those octets (packet_length + 4 +
\* mac_len of them) and exposes the payload sent.
C5_RoundTrip ==
    (ev.op = "recv" /\ ev.rt.active /\ ev.fault = "") =>
        /\ ev.ret = 0
        /\ ev.bytes = ev.rt.bytes
        /\ Len(ev.bytes) = U32ToInt(ev.pack_len) + 4 + stream["rx"].mac_len
        /\ ev.payload = ev.rt.payload
        /\ SubSeq(stream["rx"].pack.data, 6,
                  U32ToInt(ev.pack_len) + 4 - stream["rx"].pack.data[5]) = ev.rt.payload

\* C5 witness: a round trip of the longest payload under a cipher and a MAC,
\* part of it read ahead
C5_Witness ==
    /\ ev.op = "recv"
    /\ ev.rt.active
    /\ ev.ret = 0
    /\ Len(ev.payload) = MaxPayloadLen
    /\ stream["rx"].cipher_type = "aes128-cbc"
    /\ stream["rx"].mac_type = "hmac-sha2-256"
    /\ hist.readaheads = 1

\* the packet_length a framed packet carries in its first four octets
FramedLength(pack) == U32ToInt(ssh_buf_get_u32(pack.data))

\* C6: the packet the send path framed has (packet_length + 4) mod
\* max(cipher_block_len, 8) = 0, packet_length being the value of its first
\* four octets (and the length of the rest of the packet).
C6_FramedAligned ==
    (ev.op = "send" /\ ev.err \in {"", "write"}) =>
        /\ (FramedLength(stream["tx"].pack) + 4) % EffBlock(stream["tx"]) = 0
        /\ FramedLength(stream["tx"].pack) + 4 = stream["tx"].pack.len
        /\ stream["tx"].pack.len = 5 + Len(ev.payload) + stream["tx"].pack.data[5]

\* C6 witness: a packet framed for a cipher of block length 16 whose
\* payload left a whole block but one octet to fill
C6_Witness ==
    /\ ev.op = "send"
    /\ ev.ret = 0
    /\ stream["tx"].cipher_block_len = 16
    /\ Len(ev.payload) = 12
    /\ stream["tx"].pack.len = 32

\* the padding length of the formula: block - (len mod block), plus block
\* if that is below 4, for a packet of len octets before padding
PadFormula(len, block) ==
    LET b == IF block < 8 THEN 8 ELSE block
        p == b - (len % b)
    IN  IF p < 4 THEN p + b ELSE p

\* C7 (as stated): for every payload length and every 8-bit block size,
\* pad_len is the value of the formula and 4 <= pad_len <= 255.
C7_PadLenAllBlocks ==
    pad.done =>
        /\ pad.pad_len = PadFormula(pad.len, pad.block)
        /\ 4 <= pad.pad_len /\ pad.pad_len <= 255

\* C7 (amended): pad_len is the value of the formula reduced modulo 256;
\* for every block size up to 252 the formula stays within 255, so that
\* pad_len is the value of the formula and 4 <= pad_len <= 255; payload
\* length 3 with block 8 gives pad_len 8.
C7_PadLen ==
    pad.done =>
        /\ pad.pad_len = PadFormula(pad.len, pad.block) % 256
        /\ pad.block <= 252 =>
              /\ pad.pad_len = PadFormula(pad.len, pad.block)
              /\ 4 <= pad.pad_len /\ pad.pad_len <= 255
        /\ (pad.len = 8 /\ pad.block = 8) => pad.pad_len = 8

\* C7 witness: the padding of a payload of 3 octets for block size 8
C7_Witness ==
    /\ pad.done
    /\ pad.len = 8
    /\ pad.block = 8
    /\ pad.pad_len = 8

\* the packet of the null cipher, null MAC scenario as the scenario gives it
HelloWireStated ==
    <<0, 0, 0, 12, 6, 5, 104, 101, 108, 108, 111, 255, 255, 255, 255, 255, 255>>

\* the packet of the scenario as framed: padding_length 5, five 0xFF octets
HelloWire ==
    <<0, 0, 0, 12, 5, 5, 104, 101, 108, 108, 111, 255, 255, 255, 255, 255>>

\* a send of "hello" with no cipher and no MAC
HelloSentInClear ==
    /\ ev.op = "send"
    /\ ev.ret = 0
    /\ ev.payload = Hello
    /\ stream["tx"].cipher_type = "none"
    /\ stream["tx"].mac_type = "none"

\* C8 (as stated): with no cipher and no MAC, sending 05 68 65 6C 6C 6F
\* writes 00 00 00 0C 06 05 68 65 6C 6C 6F FF FF FF FF FF FF.
C8_HelloWireStated == HelloSentInClear => ev.bytes = HelloWireStated

\* C8 (amended): with no cipher and no MAC, sending 05 68 65 6C 6C 6F
\* writes 00 00 00 0C 05 05 68 65 6C 6C 6F FF FF FF FF FF (packet_length
\* 12, padding_length 5, five 0xFF octets), and receiving those octets
\* reproduces the payload.
C8_HelloWire ==
    /\ HelloSentInClear => ev.bytes = HelloWire
    /\ (ev.op = "recv" /\ ev.rt.active /\ ev.rt.bytes = HelloWire) =>
          /\ ev.ret = 0
          /\ ev.bytes = HelloWire
          /\ ev.payload = Hello

\* C8 witness: the packet of the scenario was sent and received
C8_Witness ==
    /\ ev.op = "recv"
    /\ ev.rt.active
    /\ ev.rt.bytes = HelloWire
    /\ ev.payload = Hello
    /\ stream["rx"].mac_type = "none"

\* C9: a successful send and a successful receive leave the stream's
\* seq_num one higher modulo 2^32; a fresh stream counts from 0; the
\* receiver's seq_num is its start plus the packets it received, so that
\* with every packet sent received it is the start plus the sender's count.
C9_SeqCountsPackets ==
    /\ ssh_stream_init.seq_num = U32Zero
    /\ (ev.op \in {"send", "recv"} /\ ev.ret = 0) =>
          stream[ev.s].seq_num = Succ32(ev.seq_before)
    /\ stream["rx"].seq_num = Add32(hist.start, hist.recvs_ok)
    /\ hist.recvs_ok <= hist.sends_ok
    /\ (wire = <<>> /\ stream["rx"].net_buffer = <<>> /\ hist.recvs_ok = hist.sends_ok) =>
          stream["rx"].seq_num = Add32(hist.start, hist.sends_ok)

\* C9 witness: two packets sent and received over the wrap of the counter
C9_Witness ==
    /\ hist.start = <<65535, 65535>>
    /\ hist.sends_ok = 2
    /\ hist.recvs_ok = 2
    /\ stream["rx"].seq_num = <<0, 1>>

\* C10: ssh_stream_set_cipher and ssh_stream_set_mac, succeeding or failing,
\* leave the stream's seq_num as it was.
C10_InstallKeepsSeq ==
    ev.op \in {"set_cipher", "set_mac"} => stream[ev.s].seq_num = ev.seq_before

\* C10 witness: a cipher installed on a stream that has carried packets
C10_Witness ==
    /\ ev.op = "set_cipher"
    /\ ev.ret = 0
    /\ ev.seq_before # U32Zero
    /\ stream[ev.s].cipher_type = "aes128-cbc"
    /\ hist.sends_ok = 1

(***************************************************************************)
(* SpecMac: packets under a MAC, between a sender and a receiver whose     *)
(* sequence numbers agree or not, over a network that may flip one bit of  *)
(* a packet's framed plaintext.                                            *)
(***************************************************************************)
MaxMacSends == 1

\* octet x with bit b (0: lowest) flipped
FlipBitOf(x, b) == IF (x \div (2 ^ b)) % 2 = 0 THEN x + 2 ^ b ELSE x - 2 ^ b

\* the packet in flight, sent in step and so far as sent, reaches the
\* receiver with bit b of octet pos of its framed plaintext flipped: the
\* octet on the wire moves by what the plaintext octet moves.  rt keeps
\* the octets as sent and is no longer active.
FlipBit(pos, b) ==
    /\ ~crashed
    /\ hist.tampers < lim.tampers
    /\ rt.active
    /\ wire = rt.bytes
    /\ phase = "idle"
    /\ pos \in 1..stream["tx"].pack.len
    /\ \E p \in {stream["tx"].pack.data[pos]} :
          wire' = [wire EXCEPT ![pos] = (@ + 256 + FlipBitOf(p, b) - p) % 256]
    /\ hist' = [hist EXCEPT !.tampers = @ + 1]
    /\ ev' = Ev("flip", "rx", 0, "", stream["rx"].seq_num, <<>>, <<pos, b>>,
                U32Zero, <<>>, rt, "")
    /\ rt' = [rt EXCEPT !.active = FALSE]
    /\ UNCHANGED <<stream, phase, crashed, lim, pad, kex>>

\* the configurations with a MAC, the receiver keyed like the sender
MacConfigs == Configs({"none", "aes128-cbc"}, {"hmac-sha1", "hmac-sha2-256"}, {1})

\* the payloads sent under a MAC
MacPayloads == FewPayloads \cup {PayloadOfLen(20)}

\* the sequence numbers a receiver may hold against a sender at seq: the
\* same, one more, and 65536
RxSeqs(seq) == {seq, U32Inc(seq), <<1, 0>>}

InitMac ==
    \E cfg \in MacConfigs, seq \in StartSeqs :
       \E rxseq \in RxSeqs(seq) :
          /\ stream = [s \in Streams |->
                          Installed(s, IF s = "tx" THEN seq ELSE rxseq, cfg.c, cfg.m, Km(1))]
          /\ hist = [start |-> seq, builds |-> 0, installs |-> 0, tampers |-> 0,
                     injects |-> 0, readaheads |-> 0, sends_ok |-> 0, recvs_ok |-> 0]
          /\ lim = Limits(MaxMacSends, 0, MaxTamper, 0, 0)
          /\ wire = <<>>
          /\ phase = "idle"
          /\ crashed = FALSE
          /\ ev = NoEv
          /\ rt = NoRt
          /\ pad = PadIdle
          /\ kex = KexIdle

NextMac ==
    \/ \E p \in MacPayloads : NewPacket(p)
    \/ SendPacket(0, TRUE, "ok")
    \/ RecvPacket(TRUE, TRUE)
    \/ \E pos \in 1..40, b \in 0..7 : FlipBit(pos, b)

SpecMac == InitMac /\ [][NextMac]_vars

\* what the sender last wrote: its packet as framed (or encrypted) with the
\* MAC that follows it
TxWritten ==
    LET wp == IF stream["tx"].cipher_type = "none" THEN stream["tx"].pack
              ELSE stream["tx"].pack_enc
    IN  SubSeq(wp.data, 1, wp.len + stream["tx"].mac_len)

\* the MAC octets the sender last wrote
TxWrittenMac ==
    SubSeq(TxWritten, stream["tx"].pack.len + 1, stream["tx"].pack.len + stream["tx"].mac_len)

\* a receive of a packet that was sent in step and came with one bit of its
\* framed plaintext flipped
RecvOfFlipped ==
    /\ ev.op = "recv"
    /\ ~ev.rt.active
    /\ ev.rt.bytes # <<>>

\* a receive of the packet the sender last wrote, unaltered, by a receiver
\* whose seq_num was not the one the sender framed it with
RecvOutOfSeq ==
    /\ ev.op = "recv"
    /\ phase = "idle"
    /\ ev.bytes = TxWritten
    /\ U32Inc(ev.seq_before) # stream["tx"].seq_num

\* C11: with a MAC installed, a receive fails for every packet whose framed
\* plaintext differs in one bit from what the sender framed (it never
\* returns 0 and seq_num stays as it was), and returns -1 at the MAC
\* comparison for every packet framed under a seq_num other than the
\* receiver's; the MAC the sender writes and the MAC the receiver accepts
\* are the MAC of seq_num followed by the whole unencrypted framed packet.
C11_MacDetects ==
    /\ RecvOfFlipped => (ev.ret # 0 /\ stream["rx"].seq_num = ev.seq_before)
    /\ RecvOutOfSeq => (ev.ret = -1 /\ ev.err = "mac")
    /\ (ev.op = "send" /\ ev.ret = 0) =>
          /\ TxWrittenMac = ssh_mac_compute(stream["tx"].mac_ctx, ev.seq_before,
                                            BufData(stream["tx"].pack))
          /\ stream["tx"].pack.len = FramedLength(stream["tx"].pack) + 4
    /\ (ev.op = "recv" /\ ev.ret = 0) =>
          /\ RxReceivedMac = RxComputedMac(ev.seq_before)
          /\ stream["rx"].pack.len = FramedLength(stream["rx"].pack) + 4

\* C11 witness: a packet whose length field, one bit flipped, still
\* announced a well-formed packet was refused on its MAC
C11_Witness ==
    /\ RecvOfFlipped
    /\ ev.err = "mac"
    /\ ev.pack_len = <<0, 12>>
    /\ stream["tx"].pack.len = 32

\* a receive that decoded the first block of a packet
RecvDecodedFirst ==
    /\ ev.op = "recv"
    /\ ev.err \notin {"read_first", "crypt_first"}
    /\ ev.requested # <<>>

\* C12: a receive whose first block announces a pack_len with
\* (pack_len + 4) mod max(cipher_block_len, 8) # 0 fails having requested
\* the first block only: none of the rest of the packet is asked of the
\* read-ahead buffer or the socket.
C12_MisalignedRejectedAtLength ==
    (RecvDecodedFirst /\ (ev.pack_len[2] + 4) % EffBlock(stream["rx"]) # 0) =>
        /\ ev.ret = -1
        /\ Len(ev.requested) = 1

\* a receive that read and decrypted the whole packet and went on to verify it
RecvVerified ==
    /\ ev.op = "recv"
    /\ ev.err \in {"padding", "align", "mac", "null_mac", ""}

\* the padding-length octet of the packet the receiver holds is below 4 or
\* above pack_len - 1
PadOutOfRange ==
    \/ stream["rx"].pack.data[5] < 4
    \/ stream["rx"].pack.data[5] > U32ToInt(ev.pack_len) - 1

\* C13: a receive never accepts a packet whose padding-length octet is
\* below 4 or above pack_len - 1 and leaves seq_num as it was; the padding
\* check refuses exactly those packets (it returns -1), and takes every
\* padding length from 4 to pack_len - 1.
C13_PaddingCheck ==
    /\ (RecvDecodedFirst /\ PadOutOfRange) =>
          (ev.ret # 0 /\ stream["rx"].seq_num = ev.seq_before)
    /\ RecvVerified => ((ev.err = "padding") <=> PadOutOfRange)
    /\ (ev.op = "recv" /\ ev.err = "padding") =>
          (ev.ret = -1 /\ stream["rx"].seq_num = ev.seq_before)

\* C13 witness: a packet whose padding length is its whole packet_length
\* was refused by the padding check
C13_Witness ==
    /\ ev.op = "recv"
    /\ ev.err = "padding"
    /\ ev.pack_len = <<0, 12>>
    /\ stream["rx"].pack.data[5] = 12


(***************************************************************************)
(* SpecBlock: under every cipher of the table a packet is framed and sent  *)
(* or a packet of the network's making arrives, and is received.           *)
(***************************************************************************)
BlockConfigs == Configs({"none", "3des-cbc", "aes128-cbc"}, {"none", "hmac-sha1"}, {1})

BlockPayloads == FewPayloads \cup {PayloadOfLen(12)}

\* the packets of the network's making: aligned to 8 but not to 16, to both,
\* to neither; with the shortest padding and a longer one
BlockLens == {<<0, 9>>, <<0, 12>>, <<0, 20>>, <<0, 28>>}

BlockPads == {4, 7}

InitBlock ==
    \E cfg \in BlockConfigs :
       Run(cfg, U32Zero, Limits(1, 0, 0, MaxInject, 0))

NextBlock ==
    \/ \E p \in BlockPayloads : NewPacket(p)
    \/ \E rnd \in RandSeeds : SendPacket(rnd, TRUE, "ok")
    \/ RecvPacket(TRUE, TRUE)
    \/ \E pack_len \in BlockLens, pad_len \in BlockPads : Inject(pack_len, pad_len)

SpecBlock == InitBlock /\ [][NextBlock]_vars

\* C14: a stream holds a cipher_block_len of 0 or of at least 8, and with
\* block = max(cipher_block_len, 8): the send path pads by the formula for
\* block and frames a multiple of block, which the cipher takes (a send
\* without a fault returns 0); the receive path reads block
\* octets first; and its alignment check refuses exactly the packets whose
\* length is no multiple of block.
C14_OneEffectiveBlock ==
    /\ \A s \in Streams :
          /\ stream[s].cipher_block_len = 0 \/ stream[s].cipher_block_len >= 8
          /\ FirstBlockLen(stream[s]) = EffBlock(stream[s])
    /\ (ev.op = "send" /\ ev.fault = "ok") =>
          /\ ev.ret = 0
          /\ stream["tx"].pack.data[5] =
                PadFormula(5 + Len(ev.payload), EffBlock(stream["tx"]))
          /\ stream["tx"].pack.len % EffBlock(stream["tx"]) = 0
    /\ (ev.op = "recv" /\ ev.requested # <<>>) =>
          ev.requested[1] = U32OfInt(EffBlock(stream["rx"]))
    /\ (RecvVerified /\ ~PadOutOfRange) =>
          ((ev.err = "align") <=> ((U32ToInt(ev.pack_len) + 4) % EffBlock(stream["rx"]) # 0))

\* C14 witness: under a cipher of block length 16 a payload of 12 octets
\* was framed to 32 octets, and the receiver read 16 octets first and took
\* the packet
C14_Witness ==
    /\ ev.op = "recv"
    /\ ev.ret = 0
    /\ stream["rx"].cipher_block_len = 16
    /\ ev.requested[1] = <<0, 16>>
    /\ stream["tx"].pack.len = 32
    /\ Len(ev.payload) = 12


\* C15: once a receive has failed on a bad MAC, no later receive on that
\* stream returns 0: the sequence number the receiver kept is behind the
\* sender's, so the MAC of the sender's next packet does not verify.
C15_MacFailureTerminal ==
    []((ev.op = "recv" /\ ev.err = "mac") => [](ev.op = "recv" => ev.ret # 0))

\* C15 witness: after a packet altered in transit, the sender's second
\* packet arrived as it was written and failed on its MAC, the receiver one
\* packet behind the sender
C15_Witness ==
    /\ ev.op = "recv"
    /\ ev.err = "mac"
    /\ phase = "idle"
    /\ hist.tampers = 1
    /\ hist.sends_ok = 2
    /\ ev.bytes = TxWritten
    /\ stream["tx"].seq_num = <<0, 2>>
    /\ ev.seq_before = U32Zero
    /\ stream["rx"].seq_num = U32Zero
    /\ stream["tx"].cipher_ctx.key = stream["rx"].cipher_ctx.key
    /\ stream["tx"].mac_ctx.key = stream["rx"].mac_ctx.key


(***************************************************************************)
(* SpecRekey: keys are installed on the inbound stream while octets of the *)
(* sender's packet may sit in its read-ahead buffer.                       *)
(***************************************************************************)
InitRekey ==
    \E cfg \in SomeConfigs :
       Run(cfg, U32Zero, Limits(1, MaxInstalls, 0, 0, MaxReadAhead))

NextRekey ==
    \/ NewPacket(Hello)
    \/ SendPacket(0, TRUE, "ok")
    \/ \E k \in ReadAheadSizes : ReadAhead(k)
    \/ \E type \in CipherTypes, km \in KeyMaterial, new_ok \in BOOLEAN :
          SetCipher("rx", type, km, new_ok)
    \/ \E type \in MacTypes, km \in KeyMaterial, new_ok \in BOOLEAN :
          SetMac("rx", type, km, new_ok)
    \/ RecvPacket(TRUE, TRUE)

SpecRekey == InitRekey /\ [][NextRekey]_vars

\* C16: a cipher or a MAC is installed on the inbound stream (the install
\* returns 0) only when that stream's read-ahead buffer is empty.
C16_InstallOnlyOnEmptyReadAhead ==
    (ev.op \in {"set_cipher", "set_mac"} /\ ev.s = "rx" /\ ev.ret = 0) =>
        stream["rx"].net_buffer = <<>>


(***************************************************************************)
(* SpecKexData: one run of the key exchange over every version string,     *)
(* KEXINIT payload, host key, secret exponent and server value f.          *)
(***************************************************************************)
KexDataEnvs ==
    [type : {"SSH_KEX_DH_GROUP_1", "SSH_KEX_DH_GROUP_14"}, dh_new : {TRUE},
     send_init : {"ok"}, recv : {TRUE}, pkt_type : {SSH_MSG_KEXDH_REPLY},
     read_fields : BOOLEAN, compute_key : BOOLEAN, hash : {"ok"},
     verify_signature : BOOLEAN, check_identity : {TRUE}, finish : {0},
     data : KexDatas]

NextKexData == kex.pc = "idle" /\ \E env \in KexDataEnvs : KexDhRun(env)

SpecKexData == InitKex /\ [][NextKexData]_vars

\* the f of the KEXDH_REPLY of the run is at most 1 or at least p - 1
ReplyFOutOfRange ==
    \/ MpintValue(kex.in.data.f) <= 1
    \/ MpintValue(kex.in.data.f) >= DhModulus - 1

SentE == SubSeq(kex.sent, 6, Len(kex.sent))

\* V_C, V_S, I_C, I_S, K_S, e, f, K, each as a string, in this order
ExchangeInput(d, e, K) ==
    SshString(d.V_C) \o SshString(d.V_S) \o SshString(d.I_C) \o SshString(d.I_S)
        \o SshString(d.K_S) \o SshString(e) \o SshString(d.f) \o SshString(K)

\* d differs from the data of the run in V_C, I_S or K_S
OtherExchange(d) ==
    /\ d.x = kex.in.data.x
    /\ d.f = kex.in.data.f
    /\ \/ d.V_C # kex.in.data.V_C
       \/ d.I_S # kex.in.data.I_S
       \/ d.K_S # kex.in.data.K_S

\* C18: the exchange hash is the hash of V_C, V_S, I_C, I_S, K_S, e, f, K,
\* each as a string and in this order, e being the value the KEXDH_INIT
\* carried, K_S and f the values of the KEXDH_REPLY and K the shared
\* secret; an exchange with another V_C, I_S or K_S has another hash input.
C18_ExchangeHash ==
    (kex.pc = "done" /\ kex.H # NoHash) =>
        /\ kex.sent = <<SSH_MSG_KEXDH_INIT>> \o SshString(SentE)
        /\ SentE = MpintOf(ModExp(DhGen, kex.in.data.x, DhModulus))
        /\ kex.H.type = "sha1"
        /\ kex.H.of = ExchangeInput(kex.in.data, SentE, kex.K)
        /\ \A d \in KexDatas :
              OtherExchange(d) => ExchangeInput(d, SentE, kex.K) # kex.H.of

\* C18 witness: a successful exchange whose version strings are "CS" and
\* "S", with the secret 7 (e = 128, an mpint of two octets)
C18_Witness ==
    /\ kex.pc = "done"
    /\ kex.ret = 0
    /\ kex.H # NoHash
    /\ kex.in.data.V_C = <<67, 83>>
    /\ kex.in.data.V_S = <<83>>
    /\ SentE = <<0, 128>>


\* what a step of ssh_stream_recv_packet did with the read-ahead buffer nb
\* and the socket: nb2 and the primed wire are what it left, delivered the
\* octets it handed to the packet parser
RecvTookInOrder(nb, nb2, delivered) ==
    LET from_nb == Len(nb) - Len(nb2)
        from_sock == Len(wire) - Len(wire')
    IN  /\ from_nb >= 0
        /\ from_sock >= 0
        /\ nb2 = SubSeq(nb, from_nb + 1, Len(nb))
        /\ wire' = SubSeq(wire, from_sock + 1, Len(wire))
        /\ from_sock > 0 => nb2 = <<>>
        /\ ev'.err \in {"", "padding", "align", "mac"} =>
              /\ delivered = SubSeq(nb \o wire, 1, from_nb + from_sock)
              /\ from_nb + from_sock = U32ToInt(ev'.pack_len) + 4 + stream["rx"].mac_len
              /\ from_nb = Min(Len(nb), from_nb + from_sock)

\* C19: a receive takes the octets of the read-ahead buffer first, from its
\* front and in order, removes exactly those, and reads from the socket only
\* when the buffer is used up and only the octets still missing; what it
\* hands to the packet parser is the front of the read-ahead octets
\* followed by the socket's, and what it leaves is the rest of them.
C19_ReadAheadFirst ==
    [][ev'.op = "recv" =>
          RecvTookInOrder(stream["rx"].net_buffer, stream'["rx"].net_buffer,
                          IF stream["rx"].cipher_type = "none"
                          THEN stream'["rx"].pack.data
                          ELSE stream'["rx"].pack_enc.data)]_vars

\* C19 witness: a packet of which 21 octets had been read ahead was received
\* whole, the rest of it from the socket
C19_Witness ==
    /\ ev.op = "recv"
    /\ ev.ret = 0
    /\ hist.readaheads = 1
    /\ ev.rt.active
    /\ ev.bytes = ev.rt.bytes
    /\ Len(ev.bytes) = 36
    /\ ev.requested = <<<<0, 8>>, <<0, 28>>>>
    /\ stream["rx"].net_buffer = <<>>
    /\ wire = <<>>



(***************************************************************************)
(* SpecShort: the network delivers one block that announces a short        *)
(* packet, and nothing after it.                                           *)
(***************************************************************************)
\* the packet_length fields of the blocks
ShortLens == {<<0, 1>>, <<0, 3>>, <<0, 4>>, <<0, 11>>, <<0, 12>>, <<0, 28>>}

\* the network delivers first_block_len octets: a length field, a padding
\* length of 4 and filler, encrypted as the receiver's peer would
InjectFirstBlock(pack_len) ==
    /\ ~crashed
    /\ hist.injects < lim.injects
    /\ wire = <<>>
    /\ stream["rx"].net_buffer = <<>>
    /\ LET st == stream["rx"]
           plain == U32Bytes(pack_len) \o <<4>> \o Fill(FirstBlockLen(st) - 5, 42)
       IN  wire' = IF st.cipher_type # "none" /\ st.cipher_ctx.live
                   THEN CryptBytes([st.cipher_ctx EXCEPT !.dir = "encrypt"], plain)
                   ELSE plain
    /\ hist' = [hist EXCEPT !.injects = @ + 1]
    /\ ev' = Ev("inject", "rx", 0, "", stream["rx"].seq_num, <<>>, <<>>,
                pack_len, <<>>, rt, "")
    /\ rt' = NoRt
    /\ UNCHANGED <<stream, phase, crashed, lim, pad, kex>>

InitShort ==
    \E cfg \in AllConfigs : Run(cfg, U32Zero, Limits(0, 0, 0, MaxInject, 0))

NextShort ==
    \/ \E pack_len \in ShortLens : InjectFirstBlock(pack_len)
    \/ \E io_ok \in BOOLEAN, alloc_ok \in BOOLEAN : RecvPacket(io_ok, alloc_ok)

SpecShort == InitShort /\ [][NextShort]_vars

\* a receive whose pack_len passed the length-bound check: it went on to ask
\* for the rest of the packet
RecvAskedForRest == ev.op = "recv" /\ Len(ev.requested) = 2

\* C20: for a pack_len that passed the length-bound check, pack_len + 4 is
\* at least first_block, and the octets asked for next are
\* pack_len + 4 - first_block + mac_len, at most 65536 + 4 + mac_len.
C20_RemainderNoWrap ==
    RecvAskedForRest =>
        /\ U32ToInt(ev.pack_len) + 4 >= FirstBlockLen(stream["rx"])
        /\ ev.requested[2][1] = 0
              \/ (ev.requested[2][1] = 1 /\ ev.requested[2][2] <= 4 + stream["rx"].mac_len)
        /\ ev.requested[2] = U32OfInt(U32ToInt(ev.pack_len) + 4
                                        - FirstBlockLen(stream["rx"]) + stream["rx"].mac_len)


\* C21: in every state of a stream, a cipher_type other than none comes
\* with a live cipher context and a mac_type other than none with a live
\* MAC context, also after an install that returned -1.
C21_TypeImpliesLiveContext ==
    \A s \in Streams :
        /\ stream[s].cipher_type # "none" => stream[s].cipher_ctx.live
        /\ stream[s].mac_type # "none" => stream[s].mac_ctx.live

====
